---- MODULE Spec2Model ----
(***************************************************************************)
(* Routes API (src/main.py): the airport registry loaded lazily from the   *)
(* OurAirports CSV with a curated fallback, the route resolver (static     *)
(* table first, nearest neighbours by great-circle distance otherwise)     *)
(* and the request handlers, which FastAPI runs on a thread pool (they are *)
(* plain "def" handlers), one thread per request in flight.                *)
(*                                                                         *)
(* Representation.                                                         *)
(*  - A Python str is a sequence of one-character strings, so that         *)
(*    strip(), upper(), len() and the code-point order of sorted() are     *)
(*    computed, not assumed.  The alphabet is printable ASCII.             *)
(*  - A Python dict is a sequence of entries [k, v] with distinct keys in  *)
(*    insertion order (the iteration order of a dict).                     *)
(*  - A Python float is a fixed-point number with four decimals (the       *)
(*    integer x stands for x / 10000); the math functions are computed in  *)
(*    that arithmetic.  NaN and the infinities are not represented.        *)
(***************************************************************************)
EXTENDS Integers, Sequences, FiniteSets, TLC

VARIABLES
    AIRPORTS,   \* the module-level registry (main.py:27)
    remote,     \* the rows the remote CSV currently holds
    pc,         \* per request thread: the place in its handler
    req,        \* per request thread: the request being served
    loc,        \* per request thread: the handler's local variables
    resp,       \* per request thread: the response of the finished request
    fetches,    \* number of HTTP fetches started so far
    failed,     \* some fetch attempt so far has produced no airports
    call,       \* a direct call of one function: its arguments
    result,     \* and what it returned
    reviews     \* the documents of the "review" collection, oldest first

vars == <<AIRPORTS, remote, pc, req, loc, resp, fetches, failed, call, result, reviews>>

----------------------------------------------------------------------------
(* Bounds of the model *)

NumThreads == 2
MaxRows == 3
MaxCount == 2

----------------------------------------------------------------------------
(* str *)

\* Printable ASCII, code points 32..95 and 97..126.
AsciiLow ==
    <<" ", "!", "\"", "#", "$", "%", "&", "'", "(", ")", "*", "+", ",", "-",
      ".", "/", "0", "1", "2", "3", "4", "5", "6", "7", "8", "9", ":", ";",
      "<", "=", ">", "?", "@", "A", "B", "C", "D", "E", "F", "G", "H", "I",
      "J", "K", "L", "M", "N", "O", "P", "Q", "R", "S", "T", "U", "V", "W",
      "X", "Y", "Z", "[", "\\", "]", "^", "_">>

AsciiHigh ==
    <<"a", "b", "c", "d", "e", "f", "g", "h", "i", "j", "k", "l", "m", "n",
      "o", "p", "q", "r", "s", "t", "u", "v", "w", "x", "y", "z", "{", "|",
      "}", "~">>

AsciiChars ==
    {AsciiLow[i] : i \in 1..Len(AsciiLow)} \cup {AsciiHigh[i] : i \in 1..Len(AsciiHigh)}

OrdTable ==
    [c \in AsciiChars |->
        IF \E i \in 1..Len(AsciiLow) : AsciiLow[i] = c
        THEN 31 + (CHOOSE i \in 1..Len(AsciiLow) : AsciiLow[i] = c)
        ELSE 96 + (CHOOSE i \in 1..Len(AsciiHigh) : AsciiHigh[i] = c)]

\* ord(c): the code point of a printable ASCII character
Ord(c) == OrdTable[c]

\* chr(n)
Chr(n) == IF n <= 95 THEN AsciiLow[n - 31] ELSE AsciiHigh[n - 96]

IsLower(c) == Ord(c) >= 97 /\ Ord(c) <= 122

IsDigit(c) == Ord(c) >= 48 /\ Ord(c) <= 57

IsSpace(c) == c = " "

\* str.upper()
UpperChar(c) == IF IsLower(c) THEN Chr(Ord(c) - 32) ELSE c

upper(s) == [i \in 1..Len(s) |-> UpperChar(s[i])]

IsUpper(c) == Ord(c) >= 65 /\ Ord(c) <= 90

\* str.lower()
LowerChar(c) == IF IsUpper(c) THEN Chr(Ord(c) + 32) ELSE c

lower(s) == [i \in 1..Len(s) |-> LowerChar(s[i])]

RECURSIVE lstrip(_)
lstrip(s) == IF s # <<>> /\ IsSpace(Head(s)) THEN lstrip(Tail(s)) ELSE s

RECURSIVE rstrip(_)
rstrip(s) ==
    IF s # <<>> /\ IsSpace(s[Len(s)]) THEN rstrip(SubSeq(s, 1, Len(s) - 1)) ELSE s

\* str.strip()
strip(s) == rstrip(lstrip(s))

\* str < str: lexicographic by code point, a proper prefix first.
RECURSIVE StrLess(_, _)
StrLess(a, b) ==
    IF b = <<>> THEN FALSE
    ELSE IF a = <<>> THEN TRUE
    ELSE IF Head(a) # Head(b) THEN Ord(Head(a)) < Ord(Head(b))
    ELSE StrLess(Tail(a), Tail(b))

\* str.replace(old, new) for a one-character old
RECURSIVE replace(_, _, _)
replace(s, old, new) ==
    IF s = <<>> THEN <<>>
    ELSE (IF Head(s) = old THEN new ELSE <<Head(s)>>) \o replace(Tail(s), old, new)

----------------------------------------------------------------------------
(* dict *)

EmptyDict == <<>>

DictKeys(d) == [i \in 1..Len(d) |-> d[i].k]

DictHas(d, key) == \E i \in 1..Len(d) : d[i].k = key

\* d[key], for a key that is present
DictGet(d, key) == d[CHOOSE i \in 1..Len(d) : d[i].k = key].v

\* d[key] = val: in place when the key is present, appended otherwise
DictSet(d, key, val) ==
    IF DictHas(d, key)
    THEN [i \in 1..Len(d) |-> IF d[i].k = key THEN [k |-> key, v |-> val] ELSE d[i]]
    ELSE Append(d, [k |-> key, v |-> val])

KeySet(d) == {d[i].k : i \in 1..Len(d)}

----------------------------------------------------------------------------
(* float *)

FP == 10 ^ 4

\* a * b of two fixed-point numbers
Mul(a, b) == (a * b) \div FP

\* x / 2, rounding toward zero
Half(x) == IF x >= 0 THEN x \div 2 ELSE -((-x) \div 2)

RECURSIVE DigitsValue(_, _)
DigitsValue(s, acc) ==
    IF s = <<>> THEN acc ELSE DigitsValue(Tail(s), acc * 10 + (Ord(Head(s)) - 48))

AllDigits(s) == \A i \in 1..Len(s) : IsDigit(s[i])

\* the first four decimals of a fraction, as an integer
Frac4(s) ==
    LET p == IF Len(s) >= 4 THEN SubSeq(s, 1, 4)
             ELSE s \o [i \in 1..(4 - Len(s)) |-> "0"]
    IN  DigitsValue(p, 0)

\* float(text): [ok |-> FALSE] stands for ValueError.  Accepted here: optional
\* surrounding blanks, an optional sign, digits with an optional fraction.
ParseFloat(text) ==
    LET s == strip(text)
        signed == s # <<>> /\ Head(s) \in {"-", "+"}
        body == IF signed THEN Tail(s) ELSE s
        dots == {i \in 1..Len(body) : body[i] = "."}
        dot == IF dots = {} THEN Len(body) + 1 ELSE CHOOSE i \in dots : TRUE
        ip == SubSeq(body, 1, dot - 1)
        fp == SubSeq(body, dot + 1, Len(body))
        good == /\ Cardinality(dots) <= 1
                /\ AllDigits(ip) /\ AllDigits(fp)
                /\ Len(ip) + Len(fp) >= 1
        mag == DigitsValue(ip, 0) * FP + Frac4(fp)
    IN  IF good
        THEN [ok |-> TRUE, val |-> IF signed /\ Head(s) = "-" THEN -mag ELSE mag]
        ELSE [ok |-> FALSE, val |-> 0]

\* pi, in the fixed-point unit
Pi == 31416

HalfPi == Pi \div 2

\* sin(i / 100) for i = 0..158, four decimals
SinTable ==
    <<
      0, 100, 200, 300, 400, 500, 600, 699, 799, 899, 998, 1098,
      1197, 1296, 1395, 1494, 1593, 1692, 1790, 1889, 1987, 2085, 2182, 2280,
      2377, 2474, 2571, 2667, 2764, 2860, 2955, 3051, 3146, 3240, 3335, 3429,
      3523, 3616, 3709, 3802, 3894, 3986, 4078, 4169, 4259, 4350, 4439, 4529,
      4618, 4706, 4794, 4882, 4969, 5055, 5141, 5227, 5312, 5396, 5480, 5564,
      5646, 5729, 5810, 5891, 5972, 6052, 6131, 6210, 6288, 6365, 6442, 6518,
      6594, 6669, 6743, 6816, 6889, 6961, 7033, 7104, 7174, 7243, 7311, 7379,
      7446, 7513, 7578, 7643, 7707, 7771, 7833, 7895, 7956, 8016, 8076, 8134,
      8192, 8249, 8305, 8360, 8415, 8468, 8521, 8573, 8624, 8674, 8724, 8772,
      8820, 8866, 8912, 8957, 9001, 9044, 9086, 9128, 9168, 9208, 9246, 9284,
      9320, 9356, 9391, 9425, 9458, 9490, 9521, 9551, 9580, 9608, 9636, 9662,
      9687, 9711, 9735, 9757, 9779, 9799, 9819, 9837, 9854, 9871, 9887, 9901,
      9915, 9927, 9939, 9949, 9959, 9967, 9975, 9982, 9987, 9992, 9995, 9998,
      9999, 10000, 10000>>

\* sin on [0, pi/2]: the table, linearly interpolated
SinQ(x) ==
    LET i == x \div 100
        f == x % 100
    IN  SinTable[i + 1] + ((SinTable[i + 2] - SinTable[i + 1]) * f) \div 100

\* math.sin
Sin(x) ==
    LET y == x % (2 * Pi)
    IN  IF y <= HalfPi THEN SinQ(y)
        ELSE IF y <= Pi THEN SinQ(Pi - y)
        ELSE IF y <= Pi + HalfPi THEN -SinQ(y - Pi)
        ELSE -SinQ(2 * Pi - y)

\* math.cos
Cos(x) == Sin(x + HalfPi)

\* math.radians: degrees * pi / 180 (pi / 180 = 0.017453)
radians(x) ==
    LET a == IF x >= 0 THEN x ELSE -x
        v == ((a \div 100) * 17453 + ((a % 100) * 17453) \div 100) \div FP
    IN  IF x >= 0 THEN v ELSE -v

\* the largest r in lo..hi with r * r <= n
RECURSIVE SqrtSearch(_, _, _)
SqrtSearch(n, lo, hi) ==
    IF lo >= hi THEN lo
    ELSE LET mid == (lo + hi + 1) \div 2
         IN  IF mid * mid <= n THEN SqrtSearch(n, mid, hi)
             ELSE SqrtSearch(n, lo, mid - 1)

\* math.sqrt, for 0 <= h <= 2
Sqrt(h) == SqrtSearch(h * FP, 0, 2 * FP)

\* the largest x in lo..hi with sin(x) <= y
RECURSIVE AsinSearch(_, _, _)
AsinSearch(y, lo, hi) ==
    IF lo >= hi THEN lo
    ELSE LET mid == (lo + hi + 1) \div 2
         IN  IF SinQ(mid) <= y THEN AsinSearch(y, mid, hi)
             ELSE AsinSearch(y, lo, mid - 1)

\* math.asin on [0, 1]; math.asin raises ValueError outside [-1, 1]
AsinDefined(y) == y >= -FP /\ y <= FP

Asin(y) == AsinSearch(y, 0, HalfPi)

\* Earth radius in km (main.py:109)
R == 6371

\* haversine_h with the latitudes added instead of subtracted
haversine_h_sum(a, b) ==
    LET lat1 == radians(a[1])
        lon1 == radians(a[2])
        lat2 == radians(b[1])
        lon2 == radians(b[2])
        dlat == lat2 + lat1
        dlon == lon2 - lon1
    IN  Mul(Sin(Half(dlat)), Sin(Half(dlat)))
          + Mul(Mul(Cos(lat1), Cos(lat2)), Mul(Sin(Half(dlon)), Sin(Half(dlon))))

\* the haversine term h of main.py:114
haversine_h(a, b) ==
    LET lat1 == radians(a[1])
        lon1 == radians(a[2])
        lat2 == radians(b[1])
        lon2 == radians(b[2])
        dlat == lat2 - lat1
        dlon == lon2 - lon1
    IN  Mul(Sin(Half(dlat)), Sin(Half(dlat)))
          + Mul(Mul(Cos(lat1), Cos(lat2)), Mul(Sin(Half(dlon)), Sin(Half(dlon))))

\* haversine_km(a, b), in km with four decimals
haversine_km(a, b) == 2 * R * Asin(Sqrt(haversine_h(a, b)))

----------------------------------------------------------------------------
(* The dataset loader (main.py:30-69) *)

\* The type values kept (main.py:46)
LARGE_AIRPORT == <<"l", "a", "r", "g", "e", "_", "a", "i", "r", "p", "o", "r", "t">>

MEDIUM_AIRPORT == <<"m", "e", "d", "i", "u", "m", "_", "a", "i", "r", "p", "o", "r", "t">>

\* The placeholder "\\N" of main.py:43
BACKSLASH_N == <<"\\", "N">>

\* An optional argument: None, or a value
None == [given |-> FALSE, n |-> 0]

Some(n) == [given |-> TRUE, n |-> n]

\* row.get(col): None when the row has no such column
RowGet(row, col) ==
    IF col \in DOMAIN row THEN [some |-> TRUE, s |-> row[col]]
    ELSE [some |-> FALSE, s |-> <<>>]

\* (x or "")
OrEmpty(g) == IF g.some THEN g.s ELSE <<>>

\* float(x or 0): a missing value read as 0.0
float_or_zero(g) == IF g.some THEN ParseFloat(g.s) ELSE [ok |-> TRUE, val |-> 0]

\* float(x): TypeError for None, ValueError for text that is no number
float(g) == IF g.some THEN ParseFloat(g.s) ELSE [ok |-> FALSE, val |-> 0]

\* main.py:42
row_iata(row) == upper(strip(OrEmpty(RowGet(row, "iata_code"))))

\* main.py:43-44: the row is skipped for its code
skip_iata(iata) == iata = <<>> \/ Len(iata) # 3 \/ iata = BACKSLASH_N

\* skip_type with the type test reduced to "has a type"
skip_type_any(row) == strip(OrEmpty(RowGet(row, "type"))) = <<>>

\* main.py:45-47: the row is skipped for its type
skip_type(row) ==
    strip(OrEmpty(RowGet(row, "type"))) \notin {LARGE_AIRPORT, MEDIUM_AIRPORT}

\* main.py:53-57: the row is skipped for its coordinates
skip_coords(row) ==
    \/ ~float(RowGet(row, "latitude_deg")).ok
    \/ ~float(RowGet(row, "longitude_deg")).ok

\* main.py:48-64: the record stored for a row that is kept
row_record(row) ==
    LET name == strip(OrEmpty(RowGet(row, "name")))
        iso_country == strip(OrEmpty(RowGet(row, "iso_country")))
        municipality == strip(OrEmpty(RowGet(row, "municipality")))
    IN  [name |-> name,
         city |-> IF municipality # <<>> THEN municipality ELSE name,
         country |-> iso_country,
         lat |-> float(RowGet(row, "latitude_deg")).val,
         lng |-> float(RowGet(row, "longitude_deg")).val]

\* main.py:65: the cap is reached
cap_reached(airports, max_airports) ==
    max_airports.given /\ Len(airports) >= max_airports.n

\* main.py:40-67: the loop over the reader, from line i on.  A line the csv
\* reader cannot parse raises (csv.Error); raised |-> TRUE stands for it.
RECURSIVE parse_rows(_, _, _, _)
parse_rows(lines, i, airports, max_airports) ==
    IF i > Len(lines) THEN [raised |-> FALSE, airports |-> airports]
    ELSE IF lines[i].bad THEN [raised |-> TRUE, airports |-> airports]
    ELSE LET row == lines[i].cells
             iata == row_iata(row)
         IN  IF skip_iata(iata) \/ skip_type(row) \/ skip_coords(row)
             THEN parse_rows(lines, i + 1, airports, max_airports)
             ELSE LET stored == DictSet(airports, iata, row_record(row))
                  IN  IF cap_reached(stored, max_airports)
                      THEN [raised |-> FALSE, airports |-> stored]
                      ELSE parse_rows(lines, i + 1, stored, max_airports)

\* main.py:36-37: requests.get raised, or raise_for_status did
fetch_raises(http) == http.exc # "none" \/ http.status >= 400

\* the loader with the try around the fetch only: what the loop had
\* collected is returned when the reader raises
load_airports_keeps_partial(http, max_airports) ==
    IF fetch_raises(http) THEN EmptyDict
    ELSE parse_rows(http.lines, 1, EmptyDict, max_airports).airports

\* load_airports_from_ourairports(max_airports), given what the GET produced
load_airports_from_ourairports(http, max_airports) ==
    IF fetch_raises(http) THEN EmptyDict
    ELSE LET r == parse_rows(http.lines, 1, EmptyDict, max_airports)
         IN  IF r.raised THEN EmptyDict ELSE r.airports

----------------------------------------------------------------------------
(* The curated tables *)

\* main.py:73-78
FALLBACK_AIRPORTS == <<
    [k |-> <<"J", "F", "K">>,
     v |-> [name |-> <<"J", "o", "h", "n", " ", "F", ".", " ", "K", "e", "n", "n", "e", "d", "y", " ", "I", "n", "t", "e", "r", "n", "a", "t", "i", "o", "n", "a", "l">>,
         city |-> <<"N", "e", "w", " ", "Y", "o", "r", "k">>,
         country |-> <<"U", "S">>, lat |-> 406413, lng |-> -737781]],
    [k |-> <<"L", "H", "R">>,
     v |-> [name |-> <<"L", "o", "n", "d", "o", "n", " ", "H", "e", "a", "t", "h", "r", "o", "w">>,
         city |-> <<"L", "o", "n", "d", "o", "n">>,
         country |-> <<"G", "B">>, lat |-> 514700, lng |-> -4543]],
    [k |-> <<"C", "D", "G">>,
     v |-> [name |-> <<"P", "a", "r", "i", "s", " ", "C", "h", "a", "r", "l", "e", "s", " ", "d", "e", " ", "G", "a", "u", "l", "l", "e">>,
         city |-> <<"P", "a", "r", "i", "s">>,
         country |-> <<"F", "R">>, lat |-> 490097, lng |-> 25479]],
    [k |-> <<"D", "X", "B">>,
     v |-> [name |-> <<"D", "u", "b", "a", "i", " ", "I", "n", "t", "e", "r", "n", "a", "t", "i", "o", "n", "a", "l">>,
         city |-> <<"D", "u", "b", "a", "i">>,
         country |-> <<"A", "E">>, lat |-> 252532, lng |-> 553657]]>>

\* main.py:81-86
ROUTES == <<
    [k |-> <<"J", "F", "K">>, v |-> <<<<"L", "H", "R">>, <<"C", "D", "G">>, <<"D", "X", "B">>>>],
    [k |-> <<"L", "H", "R">>, v |-> <<<<"J", "F", "K">>, <<"C", "D", "G">>, <<"D", "X", "B">>>>],
    [k |-> <<"C", "D", "G">>, v |-> <<<<"J", "F", "K">>, <<"L", "H", "R">>, <<"D", "X", "B">>>>],
    [k |-> <<"D", "X", "B">>, v |-> <<<<"J", "F", "K">>, <<"L", "H", "R">>, <<"C", "D", "G">>>>]>>

\* ROUTES.get(iata, [])
routes_get(iata) == IF DictHas(ROUTES, iata) THEN DictGet(ROUTES, iata) ELSE <<>>

----------------------------------------------------------------------------
(* The route resolver (main.py:118-134) *)

\* list.sort(key=lambda x: x[0]) is stable: x goes after every element whose
\* distance is not larger.
RECURSIVE insert_by_distance_unstable(_, _)
insert_by_distance_unstable(sorted, x) ==
    IF sorted = <<>> THEN <<x>>
    ELSE IF x.d <= Head(sorted).d THEN <<x>> \o sorted
    ELSE <<Head(sorted)>> \o insert_by_distance_unstable(Tail(sorted), x)

RECURSIVE insert_by_distance(_, _)
insert_by_distance(sorted, x) ==
    IF sorted = <<>> THEN <<x>>
    ELSE IF x.d < Head(sorted).d THEN <<x>> \o sorted
    ELSE <<Head(sorted)>> \o insert_by_distance(Tail(sorted), x)

RECURSIVE sort_by_distance(_, _)
sort_by_distance(todo, sorted) ==
    IF todo = <<>> THEN sorted
    ELSE sort_by_distance(Tail(todo), insert_by_distance(sorted, Head(todo)))

\* seq[:k] cut one short
slice_to_short(seq, k) == SubSeq(seq, 1, IF k - 1 < Len(seq) THEN k - 1 ELSE Len(seq))

\* seq[:k]
slice_to(seq, k) ==
    IF k >= 0 THEN SubSeq(seq, 1, IF k < Len(seq) THEN k ELSE Len(seq))
    ELSE SubSeq(seq, 1, IF Len(seq) + k > 0 THEN Len(seq) + k ELSE 0)

\* candidates without the test that skips the queried code
RECURSIVE candidates_with_self(_, _, _, _, _)
candidates_with_self(src_coord, items, i, iata, max_distance_km) ==
    IF i > Len(items) THEN <<>>
    ELSE LET code == items[i].k
             info == items[i].v
             d == haversine_km(src_coord, <<info.lat, info.lng>>)
             rest == candidates_with_self(src_coord, items, i + 1, iata, max_distance_km)
         IN  IF ~max_distance_km.given \/ d <= max_distance_km.n
             THEN <<[d |-> d, code |-> code]>> \o rest
             ELSE rest

\* main.py:127-132: the candidates (d, code), in the registry's order
RECURSIVE candidates(_, _, _, _, _)
candidates(src_coord, items, i, iata, max_distance_km) ==
    IF i > Len(items) THEN <<>>
    ELSE LET code == items[i].k
             info == items[i].v
             d == haversine_km(src_coord, <<info.lat, info.lng>>)
             rest == candidates(src_coord, items, i + 1, iata, max_distance_km)
         IN  IF code = iata THEN rest
             ELSE IF ~max_distance_km.given \/ d <= max_distance_km.n
                  THEN <<[d |-> d, code |-> code]>> \o rest
                  ELSE rest

\* main.py:130: math.asin raises ValueError for some pair of the scan
scan_raises(src, items, iata) ==
    \E i \in 1..Len(items) :
        /\ items[i].k # iata
        /\ ~AsinDefined(Sqrt(haversine_h(<<src.lat, src.lng>>,
                                          <<items[i].v.lat, items[i].v.lng>>)))

\* main.py:125-134, given src = AIRPORTS[iata] and items = AIRPORTS.items()
nearest_from(src, items, iata, k, max_distance_km) ==
    LET distances == candidates(<<src.lat, src.lng>>, items, 1, iata, max_distance_km)
        ordered == slice_to(sort_by_distance(distances, <<>>), k)
    IN  [i \in 1..Len(ordered) |-> ordered[i].code]

\* nearest_connections(iata, k, max_distance_km) over one registry value
nearest_connections(registry, iata, k, max_distance_km) ==
    IF ~DictHas(registry, iata) THEN <<>>
    ELSE nearest_from(DictGet(registry, iata), registry, iata, k, max_distance_km)

\* the default k of nearest_connections, and the k get_routes passes
K_DEFAULT == 8

----------------------------------------------------------------------------
(* sorted() and the response shapes *)

RECURSIVE insert_str(_, _)
insert_str(sorted, x) ==
    IF sorted = <<>> THEN <<x>>
    ELSE IF StrLess(x, Head(sorted)) THEN <<x>> \o sorted
    ELSE <<Head(sorted)>> \o insert_str(Tail(sorted), x)

RECURSIVE sort_strs(_, _)
sort_strs(todo, sorted) ==
    IF todo = <<>> THEN sorted
    ELSE sort_strs(Tail(todo), insert_str(sorted, Head(todo)))

\* sorted that leaves the order as it is
sorted_not(keys) == keys

\* sorted(keys)
sorted(keys) == sort_strs(keys, <<>>)

\* {"iata": code, **record}
with_iata(code, record) ==
    [iata |-> code, name |-> record.name, city |-> record.city,
     country |-> record.country, lat |-> record.lat, lng |-> record.lng]

\* main.py:173-175: the three links, each a fixed prefix and what follows it
destination_links(iata, city) ==
    [flights |-> [prefix |-> "https://www.google.com/travel/flights?q=Flights%20to%20",
                  rest |-> iata],
     hotels |-> [prefix |-> "https://www.google.com/travel/hotels/",
                 rest |-> replace(city, " ", <<"%", "2", "0">>)],
     wikipedia |-> [prefix |-> "https://en.wikipedia.org/wiki/",
                    rest |-> replace(city, " ", <<"_">>)]]

----------------------------------------------------------------------------
(* Rows and datasets the remote CSV is drawn from *)

Line(cells) == [bad |-> FALSE, cells |-> cells]

\* a line the csv reader raises on
BadLine == [bad |-> TRUE, cells |-> [iata_code |-> <<>>]]

\* a large airport, every column well formed
RowJFK ==
    [iata_code |-> <<"J", "F", "K">>,
     type |-> <<"l", "a", "r", "g", "e", "_", "a", "i", "r", "p", "o", "r", "t">>,
     name |-> <<"K", "e", "n", "n", "e", "d", "y">>,
     latitude_deg |-> <<"4", "0", ".", "6", "4", "1", "3">>,
     longitude_deg |-> <<"-", "7", "3", ".", "7", "7", "8", "1">>,
     iso_country |-> <<"U", "S">>,
     municipality |-> <<"N", "e", "w", " ", "Y", "o", "r", "k">>]

\* another large airport
RowBOS ==
    [iata_code |-> <<"B", "O", "S">>,
     type |-> <<"l", "a", "r", "g", "e", "_", "a", "i", "r", "p", "o", "r", "t">>,
     name |-> <<"L", "o", "g", "a", "n">>,
     latitude_deg |-> <<"4", "2", ".", "3", "6", "5", "6">>,
     longitude_deg |-> <<"-", "7", "1", ".", "0", "0", "9", "6">>,
     iso_country |-> <<"U", "S">>,
     municipality |-> <<"B", "o", "s", "t", "o", "n">>]

\* a medium airport: code in lower case with blanks around it, no municipality
RowLhrPadded ==
    [iata_code |-> <<" ", "l", "h", "r", " ">>,
     type |-> <<"m", "e", "d", "i", "u", "m", "_", "a", "i", "r", "p", "o", "r", "t">>,
     name |-> <<" ", "H", "e", "a", "t", "h", "r", "o", "w", " ">>,
     latitude_deg |-> <<"5", "1", ".", "4", "7">>,
     longitude_deg |-> <<"-", "0", ".", "4", "5", "4", "3">>,
     iso_country |-> <<"G", "B">>,
     municipality |-> <<" ">>]

\* the code of RowJFK again, with other values
RowJfkAgain ==
    [iata_code |-> <<"j", "f", "k">>,
     type |-> <<" ", "m", "e", "d", "i", "u", "m", "_", "a", "i", "r", "p", "o", "r", "t", " ">>,
     name |-> <<"I", "d", "l", "e", "w", "i", "l", "d">>,
     latitude_deg |-> <<" ", "4", "0", ".", "6", "4", " ">>,
     longitude_deg |-> <<"-", "7", "3", ".", "7", "8">>,
     iso_country |-> <<"U", "S">>,
     municipality |-> <<>>]

\* a small airport
RowSmall ==
    [iata_code |-> <<"S", "M", "L">>,
     type |-> <<"s", "m", "a", "l", "l", "_", "a", "i", "r", "p", "o", "r", "t">>,
     name |-> <<"S", "m", "a", "l", "l">>,
     latitude_deg |-> <<"1", "0", ".", "0">>,
     longitude_deg |-> <<"1", "0", ".", "0">>,
     iso_country |-> <<"U", "S">>,
     municipality |-> <<"T", "o", "w", "n">>]

\* a two-letter code
RowShortCode ==
    [iata_code |-> <<"A", "B">>,
     type |-> <<"l", "a", "r", "g", "e", "_", "a", "i", "r", "p", "o", "r", "t">>,
     name |-> <<"S", "h", "o", "r", "t">>,
     latitude_deg |-> <<"1", "0", ".", "0">>,
     longitude_deg |-> <<"1", "0", ".", "0">>,
     iso_country |-> <<"U", "S">>,
     municipality |-> <<"T", "o", "w", "n">>]

\* the placeholder code \N
RowPlaceholder ==
    [iata_code |-> <<"\\", "N">>,
     type |-> <<"l", "a", "r", "g", "e", "_", "a", "i", "r", "p", "o", "r", "t">>,
     name |-> <<"N", "u", "l", "l">>,
     latitude_deg |-> <<"1", "0", ".", "0">>,
     longitude_deg |-> <<"1", "0", ".", "0">>,
     iso_country |-> <<"U", "S">>,
     municipality |-> <<"T", "o", "w", "n">>]

\* no iata_code column
RowNoCode ==
    [type |-> <<"l", "a", "r", "g", "e", "_", "a", "i", "r", "p", "o", "r", "t">>,
     name |-> <<"N", "a", "m", "e", "l", "e", "s", "s">>,
     latitude_deg |-> <<"1", "0", ".", "0">>,
     longitude_deg |-> <<"1", "0", ".", "0">>,
     iso_country |-> <<"U", "S">>,
     municipality |-> <<"T", "o", "w", "n">>]

\* a latitude that is no number
RowBadLat ==
    [iata_code |-> <<"B", "A", "D">>,
     type |-> <<"l", "a", "r", "g", "e", "_", "a", "i", "r", "p", "o", "r", "t">>,
     name |-> <<"B", "a", "d">>,
     latitude_deg |-> <<"n", "o", "r", "t", "h">>,
     longitude_deg |-> <<"1", "0", ".", "0">>,
     iso_country |-> <<"U", "S">>,
     municipality |-> <<"T", "o", "w", "n">>]

\* no longitude_deg column
RowNoLon ==
    [iata_code |-> <<"N", "L", "N">>,
     type |-> <<"l", "a", "r", "g", "e", "_", "a", "i", "r", "p", "o", "r", "t">>,
     name |-> <<"N", "o", "L", "o", "n">>,
     latitude_deg |-> <<"1", "0", ".", "0">>,
     iso_country |-> <<"U", "S">>,
     municipality |-> <<"T", "o", "w", "n">>]

SampleRows ==
    {RowJFK, RowBOS, RowLhrPadded, RowJfkAgain, RowSmall,
     RowShortCode, RowPlaceholder, RowNoCode, RowBadLat, RowNoLon}

\* nine airports on a 3 x 3 grid: many equal distances, no static route
DatasetGrid ==
    <<Line([iata_code |-> <<"G", "A", "A">>, type |-> LARGE_AIRPORT, name |-> <<"N", "G", "A", "A">>,
          latitude_deg |-> <<"0">>, longitude_deg |-> <<"0">>,
          iso_country |-> <<"X", "X">>, municipality |-> <<>>]),
      Line([iata_code |-> <<"G", "A", "B">>, type |-> LARGE_AIRPORT, name |-> <<"N", "G", "A", "B">>,
          latitude_deg |-> <<"0">>, longitude_deg |-> <<"1", "0">>,
          iso_country |-> <<"X", "X">>, municipality |-> <<>>]),
      Line([iata_code |-> <<"G", "A", "C">>, type |-> LARGE_AIRPORT, name |-> <<"N", "G", "A", "C">>,
          latitude_deg |-> <<"0">>, longitude_deg |-> <<"2", "0">>,
          iso_country |-> <<"X", "X">>, municipality |-> <<>>]),
      Line([iata_code |-> <<"G", "B", "A">>, type |-> LARGE_AIRPORT, name |-> <<"N", "G", "B", "A">>,
          latitude_deg |-> <<"1", "0">>, longitude_deg |-> <<"0">>,
          iso_country |-> <<"X", "X">>, municipality |-> <<>>]),
      Line([iata_code |-> <<"G", "B", "B">>, type |-> LARGE_AIRPORT, name |-> <<"N", "G", "B", "B">>,
          latitude_deg |-> <<"1", "0">>, longitude_deg |-> <<"1", "0">>,
          iso_country |-> <<"X", "X">>, municipality |-> <<>>]),
      Line([iata_code |-> <<"G", "B", "C">>, type |-> LARGE_AIRPORT, name |-> <<"N", "G", "B", "C">>,
          latitude_deg |-> <<"1", "0">>, longitude_deg |-> <<"2", "0">>,
          iso_country |-> <<"X", "X">>, municipality |-> <<>>]),
      Line([iata_code |-> <<"G", "C", "A">>, type |-> LARGE_AIRPORT, name |-> <<"N", "G", "C", "A">>,
          latitude_deg |-> <<"2", "0">>, longitude_deg |-> <<"0">>,
          iso_country |-> <<"X", "X">>, municipality |-> <<>>]),
      Line([iata_code |-> <<"G", "C", "B">>, type |-> LARGE_AIRPORT, name |-> <<"N", "G", "C", "B">>,
          latitude_deg |-> <<"2", "0">>, longitude_deg |-> <<"1", "0">>,
          iso_country |-> <<"X", "X">>, municipality |-> <<>>]),
      Line([iata_code |-> <<"G", "C", "C">>, type |-> LARGE_AIRPORT, name |-> <<"N", "G", "C", "C">>,
          latitude_deg |-> <<"2", "0">>, longitude_deg |-> <<"2", "0">>,
          iso_country |-> <<"X", "X">>, municipality |-> <<>>])>>

\* eleven airports, two of them at the same place, JFK and LHR among them
DatasetEleven ==
    <<Line([iata_code |-> <<"H", "A", "A">>, type |-> LARGE_AIRPORT, name |-> <<"N", "H", "A", "A">>,
          latitude_deg |-> <<"4", "8", ".", "1">>, longitude_deg |-> <<"1", "1", ".", "5">>,
          iso_country |-> <<"X", "X">>, municipality |-> <<>>]),
      Line([iata_code |-> <<"J", "F", "K">>, type |-> LARGE_AIRPORT, name |-> <<"N", "J", "F", "K">>,
          latitude_deg |-> <<"4", "0", ".", "6", "4", "1", "3">>, longitude_deg |-> <<"-", "7", "3", ".", "7", "7", "8", "1">>,
          iso_country |-> <<"X", "X">>, municipality |-> <<>>]),
      Line([iata_code |-> <<"H", "A", "B">>, type |-> LARGE_AIRPORT, name |-> <<"N", "H", "A", "B">>,
          latitude_deg |-> <<"5", "0", ".", "0">>, longitude_deg |-> <<"8", ".", "5">>,
          iso_country |-> <<"X", "X">>, municipality |-> <<>>]),
      Line([iata_code |-> <<"H", "A", "C">>, type |-> LARGE_AIRPORT, name |-> <<"N", "H", "A", "C">>,
          latitude_deg |-> <<"5", "2", ".", "3">>, longitude_deg |-> <<"4", ".", "7">>,
          iso_country |-> <<"X", "X">>, municipality |-> <<>>]),
      Line([iata_code |-> <<"L", "H", "R">>, type |-> LARGE_AIRPORT, name |-> <<"N", "L", "H", "R">>,
          latitude_deg |-> <<"5", "1", ".", "4", "7">>, longitude_deg |-> <<"-", "0", ".", "4", "5", "4", "3">>,
          iso_country |-> <<"X", "X">>, municipality |-> <<>>]),
      Line([iata_code |-> <<"H", "A", "D">>, type |-> LARGE_AIRPORT, name |-> <<"N", "H", "A", "D">>,
          latitude_deg |-> <<"4", "1", ".", "3">>, longitude_deg |-> <<"2", ".", "1">>,
          iso_country |-> <<"X", "X">>, municipality |-> <<>>]),
      Line([iata_code |-> <<"H", "A", "E">>, type |-> LARGE_AIRPORT, name |-> <<"N", "H", "A", "E">>,
          latitude_deg |-> <<"5", "0", ".", "0">>, longitude_deg |-> <<"8", ".", "5">>,
          iso_country |-> <<"X", "X">>, municipality |-> <<>>]),
      Line([iata_code |-> <<"H", "A", "F">>, type |-> LARGE_AIRPORT, name |-> <<"N", "H", "A", "F">>,
          latitude_deg |-> <<"5", "5", ".", "6">>, longitude_deg |-> <<"1", "2", ".", "6">>,
          iso_country |-> <<"X", "X">>, municipality |-> <<>>]),
      Line([iata_code |-> <<"H", "A", "G">>, type |-> LARGE_AIRPORT, name |-> <<"N", "H", "A", "G">>,
          latitude_deg |-> <<"5", "9", ".", "6">>, longitude_deg |-> <<"1", "7", ".", "9">>,
          iso_country |-> <<"X", "X">>, municipality |-> <<>>]),
      Line([iata_code |-> <<"H", "A", "H">>, type |-> LARGE_AIRPORT, name |-> <<"N", "H", "A", "H">>,
          latitude_deg |-> <<"3", "8", ".", "7">>, longitude_deg |-> <<"-", "9", ".", "1">>,
          iso_country |-> <<"X", "X">>, municipality |-> <<>>]),
      Line([iata_code |-> <<"H", "A", "I">>, type |-> LARGE_AIRPORT, name |-> <<"N", "H", "A", "I">>,
          latitude_deg |-> <<"-", "3", "3", ".", "9">>, longitude_deg |-> <<"1", "5", "1", ".", "2">>,
          iso_country |-> <<"X", "X">>, municipality |-> <<>>])>>

\* two airports, JFK among them and none of its static routes
DatasetTwo == <<Line(RowJFK), Line(RowBOS)>>

\* a dataset with no row that qualifies
DatasetNone == <<Line(RowSmall), Line(RowShortCode)>>

----------------------------------------------------------------------------
(* The request threads.  Each handler is cut at its reads and writes of the  *)
(* global AIRPORTS: one action per access, with the local computation that   *)
(* follows it.                                                               *)

Threads == 1..NumThreads

\* what requests.get can produce
ConnectionError == [exc |-> "ConnectionError", status |-> 0, lines |-> <<>>]

Timeout == [exc |-> "Timeout", status |-> 0, lines |-> <<>>]

ServerError == [exc |-> "none", status |-> 503, lines |-> <<>>]

Ok(lines) == [exc |-> "none", status |-> 200, lines |-> lines]

NoHttp == [exc |-> "none", status |-> 0, lines |-> <<>>]

HttpOutcomes(lines) == {ConnectionError, Timeout, ServerError, Ok(lines)}

NoRecord == [name |-> <<>>, city |-> <<>>, country |-> <<>>, lat |-> 0, lng |-> 0]

\* a handler's locals before it has run
NoLocals ==
    [http |-> NoHttp, loaded |-> <<>>, iata |-> <<>>, route_codes |-> <<>>,
     i |-> 0, connections |-> <<>>, keys |-> <<>>, out |-> <<>>,
     src |-> NoRecord, city |-> <<>>]

NoRequest == [op |-> "none", iata |-> <<>>]

NoResponse == [status |-> 0, body |-> <<>>]

\* HTTPException(status_code=404, detail="Airport not found")
NotFound == [status |-> 404, body |-> "Airport not found"]

\* an exception no handler catches: the server answers 500
InternalError(what) == [status |-> 500, body |-> what]

\* the codes clients ask for: every key the remote dataset yields, spelled in
\* lower case, and a code no table holds
RequestCodes ==
    {lower(k) : k \in KeySet(load_airports_from_ourairports(Ok(remote), None))}
        \cup {<<"z", "z", "z">>}

Goto(t, label) == pc' = [pc EXCEPT ![t] = label]

\* the handler returns (or raises): its locals are gone, the response is left
Respond(t, r) ==
    /\ resp' = [resp EXCEPT ![t] = r]
    /\ loc' = [loc EXCEPT ![t] = NoLocals]
    /\ pc' = [pc EXCEPT ![t] = "done"]

\* a request arrives and its handler starts (main.py:143, 150, 167)
receive(t) ==
    /\ pc[t] = "idle"
    /\ \E op \in {"list_airports", "get_routes", "destination_summary"} :
        \E iata \in (IF op = "list_airports" THEN {<<>>} ELSE RequestCodes) :
            req' = [req EXCEPT ![t] = [op |-> op, iata |-> iata]]
    /\ Goto(t, "ensure")
    /\ UNCHANGED <<AIRPORTS, remote, loc, resp, fetches, failed, call, result, reviews>>

\* main.py:98-101 and 36: the test of AIRPORTS, then the GET is sent
ensure_check(t) ==
    /\ pc[t] = "ensure"
    /\ IF AIRPORTS # EmptyDict
       THEN Goto(t, "ensured") /\ UNCHANGED fetches
       ELSE Goto(t, "fetching") /\ fetches' = fetches + 1
    /\ UNCHANGED <<AIRPORTS, remote, req, loc, resp, failed, call, result, reviews>>

\* main.py:36-69, 101: the GET ends and the loader returns
fetch_returns(t) ==
    /\ pc[t] = "fetching"
    /\ \E http \in HttpOutcomes(remote) :
        LET loaded == load_airports_from_ourairports(http, None)
        IN  /\ loc' = [loc EXCEPT ![t].http = http, ![t].loaded = loaded]
            /\ failed' = (failed \/ loaded = EmptyDict)
    /\ Goto(t, "assign")
    /\ UNCHANGED <<AIRPORTS, remote, req, resp, fetches, call, result, reviews>>

\* ensure_value without the fallback branch
ensure_value_no_fallback(loaded) == loaded

\* main.py:102-105: what ensure_airports_loaded stores
ensure_value(loaded) == IF loaded # EmptyDict THEN loaded ELSE FALLBACK_AIRPORTS

\* main.py:102-105: the store to AIRPORTS, and the return
ensure_assign(t) ==
    /\ pc[t] = "assign"
    /\ AIRPORTS' = ensure_value(loc[t].loaded)
    /\ loc' = [loc EXCEPT ![t] = NoLocals]
    /\ Goto(t, "ensured")
    /\ UNCHANGED <<remote, req, resp, fetches, failed, call, result, reviews>>

\* main.py:146: sorted(AIRPORTS.keys())
list_sorted(t) ==
    /\ pc[t] = "ensured" /\ req[t].op = "list_airports"
    /\ LET keys == sorted(DictKeys(AIRPORTS))
       IN  IF keys = <<>>
           THEN Respond(t, [status |-> 200, body |-> <<>>])
           ELSE /\ loc' = [loc EXCEPT ![t].keys = keys, ![t].i = 1, ![t].out = <<>>]
                /\ Goto(t, "list_lookup")
                /\ UNCHANGED resp
    /\ UNCHANGED <<AIRPORTS, remote, req, fetches, failed, call, result, reviews>>

\* main.py:146: {"iata": code, **AIRPORTS[code]} for the next code
list_lookup(t) ==
    /\ pc[t] = "list_lookup"
    /\ LET code == loc[t].keys[loc[t].i]
       IN  IF ~DictHas(AIRPORTS, code)
           THEN Respond(t, InternalError("KeyError"))
           ELSE LET out == Append(loc[t].out, with_iata(code, DictGet(AIRPORTS, code)))
                IN  IF loc[t].i = Len(loc[t].keys)
                    THEN Respond(t, [status |-> 200, body |-> out])
                    ELSE /\ loc' = [loc EXCEPT ![t].out = out, ![t].i = loc[t].i + 1]
                         /\ Goto(t, "list_lookup")
                         /\ UNCHANGED resp
    /\ UNCHANGED <<AIRPORTS, remote, req, fetches, failed, call, result, reviews>>

\* known_airport with the test inverted
known_airport_inverted(registry, iata) == ~DictHas(registry, iata)

\* main.py:152-154 (and 169-171): is the upper-cased code a key of AIRPORTS
known_airport(registry, iata) == DictHas(registry, iata)

\* main.py:152-156: the 404 test of get_routes
routes_check(t) ==
    /\ pc[t] = "ensured" /\ req[t].op = "get_routes"
    /\ LET iata == upper(req[t].iata)
       IN  IF ~known_airport(AIRPORTS, iata)
           THEN Respond(t, NotFound)
           ELSE /\ loc' = [loc EXCEPT ![t].iata = iata, ![t].i = 1,
                                      ![t].route_codes = <<>>,
                                      ![t].connections = <<>>]
                /\ Goto(t, IF routes_get(iata) = <<>> THEN "nearest_check"
                           ELSE "routes_filter")
                /\ UNCHANGED resp
    /\ UNCHANGED <<AIRPORTS, remote, req, fetches, failed, call, result, reviews>>

\* keep_route with no membership test
keep_route_all(registry, c) == TRUE

\* main.py:156: "if c in AIRPORTS" for one c of the static list
keep_route(registry, c) == DictHas(registry, c)

\* main.py:156-157: the next static code is kept or dropped
routes_filter(t) ==
    /\ pc[t] = "routes_filter"
    /\ LET static == routes_get(loc[t].iata)
           c == static[loc[t].i]
           kept == IF keep_route(AIRPORTS, c) THEN Append(loc[t].route_codes, c)
                   ELSE loc[t].route_codes
       IN  IF loc[t].i < Len(static)
           THEN /\ loc' = [loc EXCEPT ![t].route_codes = kept, ![t].i = loc[t].i + 1]
                /\ Goto(t, "routes_filter")
           ELSE /\ loc' = [loc EXCEPT ![t].route_codes = kept, ![t].i = 1]
                /\ Goto(t, IF kept = <<>> THEN "nearest_check" ELSE "routes_resolve")
    /\ UNCHANGED <<AIRPORTS, remote, req, resp, fetches, failed, call, result, reviews>>

\* main.py:158, 122-123: nearest_connections is entered
nearest_check(t) ==
    /\ pc[t] = "nearest_check"
    /\ IF ~DictHas(AIRPORTS, loc[t].iata)
       THEN Goto(t, "routes_respond")
       ELSE Goto(t, "nearest_src")
    /\ UNCHANGED <<AIRPORTS, remote, req, loc, resp, fetches, failed, call, result, reviews>>

\* main.py:124: src = AIRPORTS[iata]
nearest_src(t) ==
    /\ pc[t] = "nearest_src"
    /\ IF ~DictHas(AIRPORTS, loc[t].iata)
       THEN Respond(t, InternalError("KeyError"))
       ELSE /\ loc' = [loc EXCEPT ![t].src = DictGet(AIRPORTS, loc[t].iata)]
            /\ Goto(t, "nearest_scan")
            /\ UNCHANGED resp
    /\ UNCHANGED <<AIRPORTS, remote, req, fetches, failed, call, result, reviews>>

\* main.py:125-134: the scan of AIRPORTS.items(), the sort and the cut
nearest_scan(t) ==
    /\ pc[t] = "nearest_scan"
    /\ IF scan_raises(loc[t].src, AIRPORTS, loc[t].iata)
       THEN Respond(t, InternalError("ValueError"))
       ELSE LET codes == nearest_from(loc[t].src, AIRPORTS, loc[t].iata,
                                      K_DEFAULT, None)
            IN  /\ loc' = [loc EXCEPT ![t].route_codes = codes, ![t].i = 1]
                /\ Goto(t, IF codes = <<>> THEN "routes_respond" ELSE "routes_resolve")
                /\ UNCHANGED resp
    /\ UNCHANGED <<AIRPORTS, remote, req, fetches, failed, call, result, reviews>>

\* main.py:159: {"iata": c, **AIRPORTS[c]} for the next connection
routes_resolve(t) ==
    /\ pc[t] = "routes_resolve"
    /\ LET c == loc[t].route_codes[loc[t].i]
       IN  IF ~DictHas(AIRPORTS, c)
           THEN Respond(t, InternalError("KeyError"))
           ELSE /\ loc' = [loc EXCEPT
                             ![t].connections =
                                 Append(loc[t].connections, with_iata(c, DictGet(AIRPORTS, c))),
                             ![t].i = loc[t].i + 1]
                /\ Goto(t, IF loc[t].i < Len(loc[t].route_codes) THEN "routes_resolve"
                           ELSE "routes_respond")
                /\ UNCHANGED resp
    /\ UNCHANGED <<AIRPORTS, remote, req, fetches, failed, call, result, reviews>>

\* main.py:160-163: the response, with AIRPORTS[iata] read once more
routes_respond(t) ==
    /\ pc[t] = "routes_respond"
    /\ IF ~DictHas(AIRPORTS, loc[t].iata)
       THEN Respond(t, InternalError("KeyError"))
       ELSE Respond(t, [status |-> 200,
                        body |-> [airport |-> with_iata(loc[t].iata,
                                                        DictGet(AIRPORTS, loc[t].iata)),
                                  connections |-> loc[t].connections]])
    /\ UNCHANGED <<AIRPORTS, remote, req, fetches, failed, call, result, reviews>>

\* main.py:169-171: the 404 test of destination_summary
dest_check(t) ==
    /\ pc[t] = "ensured" /\ req[t].op = "destination_summary"
    /\ LET iata == upper(req[t].iata)
       IN  IF ~known_airport(AIRPORTS, iata)
           THEN Respond(t, NotFound)
           ELSE /\ loc' = [loc EXCEPT ![t].iata = iata]
                /\ Goto(t, "dest_city")
                /\ UNCHANGED resp
    /\ UNCHANGED <<AIRPORTS, remote, req, fetches, failed, call, result, reviews>>

\* main.py:172: city = AIRPORTS[iata]["city"]
dest_city(t) ==
    /\ pc[t] = "dest_city"
    /\ IF ~DictHas(AIRPORTS, loc[t].iata)
       THEN Respond(t, InternalError("KeyError"))
       ELSE /\ loc' = [loc EXCEPT ![t].city = DictGet(AIRPORTS, loc[t].iata).city]
            /\ Goto(t, "dest_respond")
            /\ UNCHANGED resp
    /\ UNCHANGED <<AIRPORTS, remote, req, fetches, failed, call, result, reviews>>

\* main.py:173-183: the links and the response, with AIRPORTS[iata] read again
dest_respond(t) ==
    /\ pc[t] = "dest_respond"
    /\ IF ~DictHas(AIRPORTS, loc[t].iata)
       THEN Respond(t, InternalError("KeyError"))
       ELSE Respond(t, [status |-> 200,
                        body |-> [airport |-> with_iata(loc[t].iata,
                                                        DictGet(AIRPORTS, loc[t].iata)),
                                  links |-> destination_links(loc[t].iata, loc[t].city)]])
    /\ UNCHANGED <<AIRPORTS, remote, req, fetches, failed, call, result, reviews>>

\* the response is sent; the thread is free for the next request
finish(t) ==
    /\ pc[t] = "done"
    /\ pc' = [pc EXCEPT ![t] = "idle"]
    /\ req' = [req EXCEPT ![t] = NoRequest]
    /\ resp' = [resp EXCEPT ![t] = NoResponse]
    /\ UNCHANGED <<AIRPORTS, remote, loc, fetches, failed, call, result, reviews>>

Serve(t) ==
    \/ receive(t)
    \/ ensure_check(t)
    \/ fetch_returns(t)
    \/ ensure_assign(t)
    \/ list_sorted(t)
    \/ list_lookup(t)
    \/ routes_check(t)
    \/ routes_filter(t)
    \/ nearest_check(t)
    \/ nearest_src(t)
    \/ nearest_scan(t)
    \/ routes_resolve(t)
    \/ routes_respond(t)
    \/ dest_check(t)
    \/ dest_city(t)
    \/ dest_respond(t)
    \/ finish(t)

NoCall == [fn |-> "none"]

NoResult == [done |-> FALSE, value |-> <<>>]

ServerInit ==
    /\ AIRPORTS = EmptyDict
    /\ pc = [t \in Threads |-> "idle"]
    /\ req = [t \in Threads |-> NoRequest]
    /\ loc = [t \in Threads |-> NoLocals]
    /\ resp = [t \in Threads |-> NoResponse]
    /\ fetches = 0
    /\ failed = FALSE
    /\ call = NoCall
    /\ result = NoResult
    /\ reviews = <<>>

\* The server under concurrent requests
Init == ServerInit /\ remote \in {DatasetTwo, DatasetNone}

Next == \E t \in Threads : Serve(t)

Spec == Init /\ [][Next]_vars

\* The server with one request in flight at a time
InitSeq ==
    ServerInit /\ remote \in {DatasetTwo, DatasetNone, DatasetGrid, DatasetEleven}

NextSeq == Serve(1)

SpecSeq == InitSeq /\ [][NextSeq]_vars

----------------------------------------------------------------------------
(* Direct calls of the loader, over every short dataset *)

SampleLines == {Line(r) : r \in SampleRows} \cup {BadLine}

SeqsUpTo(S, n) == UNION {[1..k -> S] : k \in 0..n}

LoadCalls ==
    [fn : {"load"},
     http : {ConnectionError, Timeout, ServerError}
                \cup {Ok(lines) : lines \in SeqsUpTo(SampleLines, MaxRows)},
     max_airports : {None} \cup {Some(n) : n \in 0..MaxCount}]

\* load_airports_from_ourairports(max_airports) is called and returns
call_load ==
    /\ call.fn = "load" /\ ~result.done
    /\ result' = [done |-> TRUE,
                  value |-> load_airports_from_ourairports(call.http, call.max_airports)]
    /\ UNCHANGED <<AIRPORTS, remote, pc, req, loc, resp, fetches, failed, call, reviews>>

InitFn ==
    /\ AIRPORTS = EmptyDict
    /\ remote = <<>>
    /\ pc = [t \in Threads |-> "idle"]
    /\ req = [t \in Threads |-> NoRequest]
    /\ loc = [t \in Threads |-> NoLocals]
    /\ resp = [t \in Threads |-> NoResponse]
    /\ fetches = 0
    /\ failed = FALSE
    /\ call \in LoadCalls
    /\ result = NoResult
    /\ reviews = <<>>

NextFn == call_load

SpecFn == InitFn /\ [][NextFn]_vars

----------------------------------------------------------------------------
(* Reviews (main.py:89-93, 186-203; schemas.py:17-25).  The two handlers     *)
(* touch only the "review" collection, never AIRPORTS, so they are served    *)
(* in a specification of their own.  create_document and get_documents are   *)
(* imported from the database module, which is not among the sources: they   *)
(* are modelled as the store the specification describes (create appends a   *)
(* document, query returns the documents matching a filter, capped).         *)

MaxReviews == 2

\* Optional[str]: None, or a str
NoComment == [some |-> FALSE, s |-> <<>>]

Text(s) == [some |-> TRUE, s |-> s]

\* a str of n characters c
Repeat(c, n) == [i \in 1..n |-> c]

JFK == <<"J", "F", "K">>

\* a body every constraint accepts
GoodBody ==
    [typed |-> TRUE, airport_iata |-> JFK, name |-> <<"a">>, rating |-> 5,
     comment |-> NoComment]

\* a body FastAPI cannot read as a ReviewIn (main.py:89-93): a field is
\* missing or has the wrong type
UntypedBody == [GoodBody EXCEPT !.typed = FALSE]

\* the bodies clients post: GoodBody with one field changed, up to and past
\* each limit of schemas.py:22-25
ReviewBodies ==
    {GoodBody, UntypedBody}
      \cup {[GoodBody EXCEPT !.airport_iata = x] :
              x \in {<<"j", "f", "k">>, <<"L", "h", "R">>, <<"J", "F">>,
                     <<"J", "F", "K", "X">>, <<>>}}
      \cup {[GoodBody EXCEPT !.name = x] :
              x \in {<<>>, Repeat("n", 80), Repeat("n", 81)}}
      \cup {[GoodBody EXCEPT !.rating = x] : x \in {0, 1, 6}}
      \cup {[GoodBody EXCEPT !.comment = x] :
              x \in {Text(<<>>), Text(Repeat("c", 1000)), Text(Repeat("c", 1001))}}

\* schemas.py:22: airport_iata, min_length=3, max_length=3
valid_airport_iata(x) == Len(x) >= 3 /\ Len(x) <= 3

\* schemas.py:23: name, min_length=1, max_length=80
valid_name(x) == Len(x) >= 1 /\ Len(x) <= 80

\* valid_rating with the upper limit forgotten
valid_rating_ge_only(x) == x >= 1

\* schemas.py:24: rating, ge=1, le=5
valid_rating(x) == x >= 1 /\ x <= 5

\* schemas.py:25: comment, None or max_length=1000
valid_comment(x) == x.some => Len(x.s) <= 1000

\* Review(**review.model_dump()) does not raise ValidationError (main.py:188)
Review(body) ==
    /\ valid_airport_iata(body.airport_iata)
    /\ valid_name(body.name)
    /\ valid_rating(body.rating)
    /\ valid_comment(body.comment)

\* str(n) for a natural number n
RECURSIVE str_nat(_)
str_nat(n) ==
    IF n < 10 THEN <<Chr(48 + n)>>
    ELSE Append(str_nat(n \div 10), Chr(48 + (n % 10)))

\* the document create_document stores for r: its fields as they are, under
\* a fresh _id
new_document(store, r) ==
    [_id |-> [oid |-> Len(store) + 1], airport_iata |-> r.airport_iata,
     name |-> r.name, rating |-> r.rating, comment |-> r.comment]

\* create_document("review", r): the collection afterwards
create_document(store, r) == Append(store, new_document(store, r))

\* the documents of store whose airport_iata equals the filter's, oldest first
RECURSIVE matching(_, _, _)
matching(store, i, airport_iata) ==
    IF i > Len(store) THEN <<>>
    ELSE IF store[i].airport_iata = airport_iata
         THEN <<store[i]>> \o matching(store, i + 1, airport_iata)
         ELSE matching(store, i + 1, airport_iata)

\* get_documents("review", {"airport_iata": airport_iata}, limit)
get_documents(store, airport_iata, limit) ==
    slice_to(matching(store, 1, airport_iata), limit)

\* main.py:196-202: _id becomes a str (the documents carry no timestamps here)
serialize(doc) == [doc EXCEPT !._id = str_nat(doc._id.oid)]

\* the default limit of list_reviews (main.py:194)
LIMIT_DEFAULT == 50

\* the codes and limits clients list reviews with
ReviewCodes == {JFK, <<"j", "f", "k">>, <<"L", "h", "R">>, <<"z", "z", "z">>}

ReviewLimits == {1, LIMIT_DEFAULT}

\* the response to a body FastAPI could not read as a ReviewIn
Unprocessable == [status |-> 422, body |-> "RequestValidationError"]

\* POST /reviews (main.py:186-190)
add_review(t) ==
    /\ pc[t] = "idle"
    /\ \E body \in ReviewBodies :
        /\ req' = [req EXCEPT ![t] = [op |-> "add_review", iata |-> <<>>, body |-> body]]
        /\ IF ~body.typed
           THEN Respond(t, Unprocessable) /\ UNCHANGED reviews
           ELSE IF ~Review(body)
           THEN Respond(t, InternalError("ValidationError")) /\ UNCHANGED reviews
           ELSE /\ Len(reviews) < MaxReviews
                /\ reviews' = create_document(reviews, body)
                /\ Respond(t, [status |-> 201,
                               body |-> [id |-> str_nat(Len(reviews) + 1)]])
    /\ UNCHANGED <<AIRPORTS, remote, fetches, failed, call, result>>

\* GET /reviews/{iata}?limit= (main.py:193-203)
list_reviews(t) ==
    /\ pc[t] = "idle"
    /\ \E iata \in ReviewCodes, limit \in ReviewLimits :
        LET items == get_documents(reviews, upper(iata), limit)
        IN  /\ req' = [req EXCEPT ![t] = [op |-> "list_reviews", iata |-> iata,
                                          limit |-> limit]]
            /\ Respond(t, [status |-> 200,
                           body |-> [i \in 1..Len(items) |-> serialize(items[i])]])
    /\ UNCHANGED <<AIRPORTS, remote, fetches, failed, call, result, reviews>>

InitReviews == ServerInit /\ remote = <<>>

NextReviews == add_review(1) \/ list_reviews(1) \/ finish(1)

SpecReviews == InitReviews /\ [][NextReviews]_vars

----------------------------------------------------------------------------
(* Direct calls of haversine_km and nearest_connections *)

MaxK == 3

\* the registries the loader builds from the two larger datasets
GridRegistry == load_airports_from_ourairports(Ok(DatasetGrid), None)

ElevenRegistry == load_airports_from_ourairports(Ok(DatasetEleven), None)

Registries == {FALLBACK_AIRPORTS, GridRegistry, ElevenRegistry}

\* (lat, lng) of a record
coord(info) == <<info.lat, info.lng>>

\* the coordinates of every record, the poles and the date line
Coords ==
    UNION {{coord(reg[i].v) : i \in 1..Len(reg)} :
             reg \in {FALLBACK_AIRPORTS, GridRegistry}}
      \cup {<<0, 0>>, <<90 * FP, 180 * FP>>, <<-90 * FP, -180 * FP>>, <<90 * FP, 0>>}

HaversineCalls == [fn : {"haversine"}, a : Coords, b : Coords]

\* the distances from iata to the other airports of registry
DistancesFrom(registry, iata) ==
    IF ~DictHas(registry, iata) THEN {}
    ELSE {haversine_km(coord(DictGet(registry, iata)), coord(registry[i].v)) :
            i \in {j \in 1..Len(registry) : registry[j].k # iata}}

\* the caps tried for one airport: none, zero, and each distance and just
\* below it
CapsFor(registry, iata) ==
    {None, Some(0)}
      \cup {Some(d) : d \in DistancesFrom(registry, iata)}
      \cup {Some(d - 1) : d \in DistancesFrom(registry, iata)}

NearestCalls ==
    UNION {UNION {[fn : {"nearest"}, registry : {registry}, iata : {iata},
                   k : (0..MaxK) \cup {K_DEFAULT},
                   max_distance_km : CapsFor(registry, iata)] :
                    iata \in KeySet(registry) \cup {<<"z", "z", "z">>}} :
             registry \in Registries}

\* haversine_km(a, b) is called and returns, or math.asin raises
call_haversine ==
    /\ call.fn = "haversine" /\ ~result.done
    /\ result' = [done |-> TRUE,
                  value |-> IF AsinDefined(Sqrt(haversine_h(call.a, call.b)))
                            THEN [raised |-> FALSE, d |-> haversine_km(call.a, call.b)]
                            ELSE [raised |-> TRUE, d |-> 0]]
    /\ UNCHANGED <<AIRPORTS, remote, pc, req, loc, resp, fetches, failed, call, reviews>>

\* nearest_connections(iata, k, max_distance_km) is called with AIRPORTS set
\* to call.registry, and returns
call_nearest ==
    /\ call.fn = "nearest" /\ ~result.done
    /\ result' = [done |-> TRUE,
                  value |-> nearest_connections(call.registry, call.iata, call.k,
                                                call.max_distance_km)]
    /\ UNCHANGED <<AIRPORTS, remote, pc, req, loc, resp, fetches, failed, call, reviews>>

InitGeo ==
    /\ AIRPORTS = EmptyDict
    /\ remote = <<>>
    /\ pc = [t \in Threads |-> "idle"]
    /\ req = [t \in Threads |-> NoRequest]
    /\ loc = [t \in Threads |-> NoLocals]
    /\ resp = [t \in Threads |-> NoResponse]
    /\ fetches = 0
    /\ failed = FALSE
    /\ call \in HaversineCalls \cup NearestCalls
    /\ result = NoResult
    /\ reviews = <<>>

NextGeo == call_haversine \/ call_nearest

SpecGeo == InitGeo /\ [][NextGeo]_vars

----------------------------------------------------------------------------
(* The remote dataset with one column of its header changed *)

\* the columns the loader reads (main.py:42-52)
Columns ==
    {"iata_code", "type", "name", "latitude_deg", "longitude_deg", "iso_country",
     "municipality"}

\* the rows csv.DictReader yields when the header has no column col
DropColumn(lines, col) ==
    [i \in 1..Len(lines) |->
        [bad |-> lines[i].bad,
         cells |-> [c \in DOMAIN lines[i].cells \ {col} |-> lines[i].cells[c]]]]

\* the rows csv.DictReader yields when the header names column col "renamed"
RenameColumn(lines, col) ==
    [i \in 1..Len(lines) |->
        [bad |-> lines[i].bad,
         cells |-> [c \in (DOMAIN lines[i].cells \ {col}) \cup {"renamed"} |->
                       IF c = "renamed" THEN lines[i].cells[col]
                       ELSE lines[i].cells[c]]]]

ChangedDatasets ==
    {DropColumn(DatasetTwo, col) : col \in Columns}
      \cup {RenameColumn(DatasetTwo, col) : col \in Columns}

InitCols == ServerInit /\ remote \in ChangedDatasets

NextCols == \E t \in Threads : Serve(t)

SpecCols == InitCols /\ [][NextCols]_vars

----------------------------------------------------------------------------
(* The claims *)

\* A row qualifies: a 3-character code, a kept type, two numeric coordinates
RowQualifies(row) ==
    /\ "iata_code" \in DOMAIN row /\ Len(strip(row.iata_code)) = 3
    /\ "type" \in DOMAIN row /\ strip(row.type) \in {LARGE_AIRPORT, MEDIUM_AIRPORT}
    /\ "latitude_deg" \in DOMAIN row /\ ParseFloat(row.latitude_deg).ok
    /\ "longitude_deg" \in DOMAIN row /\ ParseFloat(row.longitude_deg).ok

LoadReturned == call.fn = "load" /\ result.done

\* C8: every record the loader emits has a key of exactly 3 characters with
\* no lower-case letter and is the full record of a row of the dataset whose
\* type is large_airport or medium_airport and whose two coordinates parse as
\* numbers: no row failing one of these contributes an entry, and no entry is
\* partial.
C8_LoaderEmitsOnlyValid ==
    LoadReturned =>
        \A e \in 1..Len(result.value) :
            LET key == result.value[e].k
                rec == result.value[e].v
            IN  /\ Len(key) = 3
                /\ \A j \in 1..Len(key) : ~IsLower(key[j])
                /\ \E i \in 1..Len(call.http.lines) :
                    LET ln == call.http.lines[i]
                    IN  /\ ~ln.bad
                        /\ RowQualifies(ln.cells)
                        /\ upper(strip(ln.cells.iata_code)) = key
                        /\ rec.lat = ParseFloat(ln.cells.latitude_deg).val
                        /\ rec.lng = ParseFloat(ln.cells.longitude_deg).val
                        /\ DOMAIN rec = {"name", "city", "country", "lat", "lng"}

\* C8 witness: the loader returned two records from a dataset that also holds
\* a row that does not qualify
C8_Witness ==
    /\ LoadReturned
    /\ Len(result.value) = 2
    /\ \E i \in 1..Len(call.http.lines) :
        ~call.http.lines[i].bad /\ ~RowQualifies(call.http.lines[i].cells)

\* the distinct keys of the qualifying rows, in first-seen order
RECURSIVE FirstKeys(_, _, _)
FirstKeys(lines, i, seen) ==
    IF i > Len(lines) THEN seen
    ELSE LET row == lines[i].cells
             key == IF RowQualifies(row) THEN upper(strip(row.iata_code)) ELSE <<>>
         IN  IF RowQualifies(row) /\ \A j \in 1..Len(seen) : seen[j] # key
             THEN FirstKeys(lines, i + 1, Append(seen, key))
             ELSE FirstKeys(lines, i + 1, seen)

\* the dataset was fetched and every line of it parses
CleanFetch(http) ==
    /\ http.exc = "none" /\ http.status = 200
    /\ \A i \in 1..Len(http.lines) : ~http.lines[i].bad

\* C9 (as claimed): for every provided maxCount >= 0 the loader returns at
\* most maxCount records, namely the first maxCount qualifying codes in stream
\* order.
C9_CapRespected ==
    (LoadReturned /\ call.max_airports.given /\ CleanFetch(call.http)) =>
        LET n == call.max_airports.n
            keys == FirstKeys(call.http.lines, 1, <<>>)
        IN  /\ Len(result.value) <= n
            /\ DictKeys(result.value) = SubSeq(keys, 1, IF n < Len(keys) THEN n ELSE Len(keys))

\* C9, for maxCount >= 1 only (not a claim's formula: the extent of the defect)
C9_CapRespectedFromOne ==
    (LoadReturned /\ call.max_airports.given /\ call.max_airports.n >= 1
        /\ CleanFetch(call.http)) =>
        LET n == call.max_airports.n
            keys == FirstKeys(call.http.lines, 1, <<>>)
        IN  DictKeys(result.value) = SubSeq(keys, 1, IF n < Len(keys) THEN n ELSE Len(keys))

\* C1 (as claimed): the remote fetch is started exactly once in total, and
\* never while another fetch is in flight, whatever the number of concurrent
\* callers of ensure_airports_loaded.
C1_SingleFetch ==
    /\ fetches <= 1
    /\ Cardinality({t \in Threads : pc[t] = "fetching"}) <= 1
    /\ (\E t \in Threads : pc[t] \notin {"idle", "ensure"}) => fetches = 1

\* C2 (as claimed): once AIRPORTS is non-empty its contents never change.
C2_RegistryImmutable == [][AIRPORTS # EmptyDict => AIRPORTS' = AIRPORTS]_vars

\* the fetch produced no airports: an error, a non-success status, an
\* unparsable line or no qualifying row
FetchFailed(http) ==
    \/ http.exc # "none"
    \/ http.status # 200
    \/ \E i \in 1..Len(http.lines) : http.lines[i].bad
    \/ \A i \in 1..Len(http.lines) : ~RowQualifies(http.lines[i].cells)

FallbackKeys ==
    {<<"J", "F", "K">>, <<"L", "H", "R">>, <<"C", "D", "G">>, <<"D", "X", "B">>}

\* C3: when the fetch of a caller has failed, the step on which its
\* ensure_airports_loaded stores and returns leaves AIRPORTS equal to the
\* fallback table, key set {JFK, LHR, CDG, DXB}, and the caller goes on in its
\* handler: no error response is produced.
C3_FailedFetchFallsBack ==
    [][\A t \in Threads :
        (pc[t] = "assign" /\ pc'[t] # "assign" /\ FetchFailed(loc[t].http)) =>
            /\ AIRPORTS' = FALLBACK_AIRPORTS
            /\ KeySet(AIRPORTS') = FallbackKeys
            /\ Len(AIRPORTS') = 4
            /\ pc'[t] = "ensured"
            /\ resp'[t] = NoResponse]_vars

\* C3 witness: a caller is back from ensure_airports_loaded after a failed
\* fetch and the registry is the fallback table
C3_Witness ==
    /\ failed
    /\ fetches = 1
    /\ AIRPORTS = FALLBACK_AIRPORTS
    /\ \E t \in Threads : pc[t] = "ensured"

\* C4 (as claimed): after a fetch attempt has failed no further fetch is
\* started, and the registry, once set, is the fallback table in every later
\* state.
C4_NoRetryAfterFailure ==
    [][failed =>
        /\ fetches' = fetches
        /\ (AIRPORTS' # EmptyDict => AIRPORTS' = FALLBACK_AIRPORTS)]_vars

\* C7: when the upper-cased code of a get_routes request is not a key of the
\* registry, the handler's test answers Not-Found (404) with no connections
\* and leaves the registry as it is.
C7_UnknownCodeNotFound ==
    [][\A t \in Threads :
        (/\ pc[t] = "ensured" /\ req[t].op = "get_routes" /\ pc'[t] # "ensured"
         /\ \A i \in 1..Len(AIRPORTS) : AIRPORTS[i].k # upper(req[t].iata)) =>
            /\ pc'[t] = "done"
            /\ resp'[t] = [status |-> 404, body |-> "Airport not found"]
            /\ AIRPORTS' = AIRPORTS]_vars

\* C7 witness: a get_routes request for a code in lower case that no key
\* matches has been answered 404
C7_Witness ==
    \E t \in Threads :
        /\ pc[t] = "done" /\ req[t].op = "get_routes" /\ resp[t].status = 404
        /\ req[t].iata = <<"z", "z", "z">>
        /\ AIRPORTS # FALLBACK_AIRPORTS

\* a get_routes request of the single worker has been answered
RoutesAnswered == pc[1] = "done" /\ req[1].op = "get_routes"

\* the distance from the answered airport to one of its connections
DistanceTo(body, c) ==
    haversine_km(<<body.airport.lat, body.airport.lng>>, <<c.lat, c.lng>>)

\* C5: with one request in flight, for a code of the registry that has no
\* static route entry and a registry of at least 9 airports, get_routes
\* returns exactly 8 connections in non-decreasing order of distance from the
\* code, and no airport left out is nearer than one returned.
C5_EightNearest ==
    (/\ RoutesAnswered
     /\ DictHas(AIRPORTS, upper(req[1].iata))
     /\ ~DictHas(ROUTES, upper(req[1].iata))
     /\ Len(AIRPORTS) >= 9) =>
        /\ resp[1].status = 200
        /\ LET body == resp[1].body
               conns == body.connections
               returned == {conns[i].iata : i \in 1..Len(conns)}
           IN  /\ Len(conns) = 8
               /\ Cardinality(returned) = 8
               /\ \A i \in 1..Len(conns) :
                    /\ DictHas(AIRPORTS, conns[i].iata)
                    /\ conns[i] = with_iata(conns[i].iata, DictGet(AIRPORTS, conns[i].iata))
                    /\ conns[i].iata # body.airport.iata
               /\ \A i \in 1..(Len(conns) - 1) :
                    DistanceTo(body, conns[i]) <= DistanceTo(body, conns[i + 1])
               /\ \A j \in 1..Len(AIRPORTS) :
                    (AIRPORTS[j].k \notin returned /\ AIRPORTS[j].k # body.airport.iata) =>
                        \A i \in 1..Len(conns) :
                            DistanceTo(body, conns[i]) <= DistanceTo(body, AIRPORTS[j].v)

\* C5 witness: such a request answered from a registry of 11 airports, two of
\* the connections at the same distance
C5_Witness ==
    /\ RoutesAnswered /\ resp[1].status = 200
    /\ ~DictHas(ROUTES, upper(req[1].iata))
    /\ Len(AIRPORTS) = 11
    /\ Len(resp[1].body.connections) = 8
    /\ \E i \in 1..7 :
        DistanceTo(resp[1].body, resp[1].body.connections[i])
            = DistanceTo(resp[1].body, resp[1].body.connections[i + 1])

\* the static routes of a code that are keys of the registry, in table order
RECURSIVE StaticPresent(_, _)
StaticPresent(static, registry) ==
    IF static = <<>> THEN <<>>
    ELSE (IF \E i \in 1..Len(registry) : registry[i].k = Head(static)
          THEN <<Head(static)>> ELSE <<>>) \o StaticPresent(Tail(static), registry)

StaticOf(code) ==
    IF \E i \in 1..Len(ROUTES) : ROUTES[i].k = code
    THEN ROUTES[CHOOSE i \in 1..Len(ROUTES) : ROUTES[i].k = code].v
    ELSE <<>>

\* C6: with one request in flight, for a code of the registry whose static
\* list filtered to the registry is non-empty, get_routes answers 200 with
\* exactly that filtered list in table order; the handler enters
\* nearest_connections if and only if the filtered list is empty.
C6_StaticRoutesFirst ==
    [][LET code == upper(req[1].iata)
           present == StaticPresent(StaticOf(code), AIRPORTS)
       IN  /\ (/\ pc'[1] = "done" /\ pc[1] # "done" /\ req[1].op = "get_routes"
               /\ DictHas(AIRPORTS, code) /\ present # <<>>) =>
                  /\ resp'[1].status = 200
                  /\ [i \in 1..Len(resp'[1].body.connections) |->
                         resp'[1].body.connections[i].iata] = present
                  /\ \A i \in 1..Len(present) :
                         resp'[1].body.connections[i]
                             = with_iata(present[i], DictGet(AIRPORTS, present[i]))
           /\ (pc'[1] = "nearest_check" /\ pc[1] # "nearest_check") => present = <<>>
           /\ (/\ pc[1] \in {"ensured", "routes_filter"} /\ req[1].op = "get_routes"
               /\ pc'[1] \notin {"ensured", "routes_filter", "done"}) =>
                  (pc'[1] = "nearest_check" <=> present = <<>>)]_vars

\* C6 witness: JFK answered from a registry that holds only one of its three
\* static routes
C6_Witness ==
    /\ RoutesAnswered /\ resp[1].status = 200
    /\ resp[1].body.airport.iata = <<"J", "F", "K">>
    /\ Len(resp[1].body.connections) = 1
    /\ resp[1].body.connections[1].iata = <<"L", "H", "R">>
    /\ Len(AIRPORTS) = 11

\* C10: with one request in flight, the list list_airports returns is in
\* strictly ascending code-point order of IATA code (so no code twice) and
\* holds every key of the registry, each with its record.
C10_ListSorted ==
    (pc[1] = "done" /\ req[1].op = "list_airports") =>
        /\ resp[1].status = 200
        /\ LET out == resp[1].body
           IN  /\ \A i \in 1..(Len(out) - 1) : StrLess(out[i].iata, out[i + 1].iata)
               /\ \A i \in 1..Len(out) : \A j \in 1..Len(out) :
                    out[i].iata = out[j].iata => i = j
               /\ {out[i].iata : i \in 1..Len(out)} = {AIRPORTS[i].k : i \in 1..Len(AIRPORTS)}
               /\ Len(out) = Len(AIRPORTS)
               /\ \A i \in 1..Len(out) : \E j \in 1..Len(AIRPORTS) :
                    /\ AIRPORTS[j].k = out[i].iata
                    /\ out[i] = with_iata(AIRPORTS[j].k, AIRPORTS[j].v)

\* C10 witness: the list of a registry of 11 airports whose insertion order
\* is not the sorted order
C10_Witness ==
    /\ pc[1] = "done" /\ req[1].op = "list_airports" /\ resp[1].status = 200
    /\ Len(resp[1].body) = 11
    /\ \E i \in 1..10 : StrLess(AIRPORTS[i + 1].k, AIRPORTS[i].k)

----------------------------------------------------------------------------
(* Reviews *)

\* a body the Review schema must reject, as the data model words it
BodyRejected(body) ==
    \/ body.rating \notin 1..5
    \/ Len(body.airport_iata) # 3
    \/ body.name = <<>>
    \/ Len(body.name) > 80
    \/ (body.comment.some /\ Len(body.comment.s) > 1000)

\* thread t has just answered a POST /reviews
ReviewAnswered(t) == pc[t] = "done" /\ req[t].op = "add_review"

\* C11: a review body whose rating is outside 1..5, whose airport_iata is not
\* exactly 3 characters, whose name is empty or longer than 80 characters, or
\* whose comment is longer than 1000 characters never reaches create: the
\* step on which add_review answers it leaves the collection as it was.
C11_InvalidNotStored ==
    [][\A t \in Threads :
          (pc[t] = "idle" /\ pc'[t] = "done" /\ req'[t].op = "add_review"
             /\ BodyRejected(req'[t].body))
          => reviews' = reviews]_vars

\* add_review has turned away a rating of 6 while the collection held a review
C11_Witness ==
    /\ ReviewAnswered(1)
    /\ req[1].body.rating = 6
    /\ resp[1].status # 201
    /\ Len(reviews) = 1

\* C17: a review body that fails validation is answered with a client error
\* (a 4xx status), never with a server error.
C17_InvalidIsClientError ==
    \A t \in Threads :
        (ReviewAnswered(t) /\ (~req[t].body.typed \/ BodyRejected(req[t].body)))
        => resp[t].status \in 400..499

\* the reviews of the collection stored with airport_iata = x
StoredFor(x) == {i \in 1..Len(reviews) : reviews[i].airport_iata = x}

\* C19: every review accepted with airport_iata = X is returned by a later
\* list_reviews(X) when no more than limit of them are stored, for every
\* 3-character X, lower-case letters included.
C19_AcceptedIsListed ==
    \A t \in Threads :
        (pc[t] = "done" /\ req[t].op = "list_reviews"
           /\ Cardinality(StoredFor(req[t].iata)) <= req[t].limit)
        => \A i \in StoredFor(req[t].iata) :
               \E j \in 1..Len(resp[t].body) : resp[t].body[j] = serialize(reviews[i])

----------------------------------------------------------------------------
(* Distances and nearest neighbours, called directly *)

\* C12: the great-circle distance from a coordinate to itself is 0:
\* haversine_km(a, a) returns 0 (and does not raise) for every coordinate a.
C12_DistanceToSelfIsZero ==
    (call.fn = "haversine" /\ result.done /\ call.a = call.b)
        => result.value = [raised |-> FALSE, d |-> 0]

\* haversine_km has been called with JFK's coordinates twice
C12_Witness ==
    /\ call.fn = "haversine" /\ result.done
    /\ call.a = <<406413, -737781>>
    /\ call.b = call.a

\* place i of the registry comes before place j in the order of the claim:
\* nearer to src, or as near and earlier in the registry
Before(registry, src, i, j) ==
    LET di == haversine_km(coord(src), coord(registry[i].v))
        dj == haversine_km(coord(src), coord(registry[j].v))
    IN  di < dj \/ (di = dj /\ i < j)

\* C18: nearest_connections returns candidates in ascending order of
\* distance, candidates at equal distance in the registry's iteration order;
\* the result is the first k of that order (k >= 0), or all candidates when
\* fewer than k remain; with max_distance_km given, a candidate is an airport
\* other than iata whose distance is <= the cap.
C18_StableFirstK ==
    (call.fn = "nearest" /\ result.done /\ DictHas(call.registry, call.iata)) =>
        LET registry == call.registry
            out == result.value
            src == DictGet(registry, call.iata)
            cap == call.max_distance_km
            Cand == {i \in 1..Len(registry) :
                        /\ registry[i].k # call.iata
                        /\ cap.given =>
                             haversine_km(coord(src), coord(registry[i].v)) <= cap.n}
            Place(c) == CHOOSE i \in 1..Len(registry) : registry[i].k = c
        IN  /\ \A j \in 1..Len(out) :
                  DictHas(registry, out[j]) /\ Place(out[j]) \in Cand
            /\ Len(out) = IF call.k < Cardinality(Cand) THEN call.k
                          ELSE Cardinality(Cand)
            /\ \A j \in 1..(Len(out) - 1) :
                  Before(registry, src, Place(out[j]), Place(out[j + 1]))
            /\ \A i \in Cand :
                  (\A j \in 1..Len(out) : out[j] # registry[i].k) =>
                      \A j \in 1..Len(out) : Before(registry, src, Place(out[j]), i)

\* the middle of the grid asked for 3 airports within the distance of its
\* northern and southern neighbours: the two neighbours on its parallel, which
\* are equally near, then the first of the two on its meridian, which lies
\* exactly at the cap
C18_Witness ==
    /\ call.fn = "nearest" /\ result.done
    /\ call.registry = GridRegistry
    /\ call.iata = <<"G", "B", "B">>
    /\ call.k = 3
    /\ call.max_distance_km
         = Some(haversine_km(coord(DictGet(GridRegistry, <<"G", "B", "B">>)),
                             coord(DictGet(GridRegistry, <<"G", "A", "B">>))))
    /\ result.value = << <<"G", "B", "A">>, <<"G", "B", "C">>, <<"G", "A", "B">> >>

\* C16: with one request in flight, every connection get_routes returns,
\* static or nearest-neighbour, is a key of the registry and is not the
\* queried code; a static target that is no key of the registry is not
\* among them.
C16_ConnectionsAreOtherKeys ==
    (RoutesAnswered /\ resp[1].status = 200) =>
        LET conns == resp[1].body.connections
        IN  \A i \in 1..Len(conns) :
                /\ DictHas(AIRPORTS, conns[i].iata)
                /\ conns[i].iata # upper(req[1].iata)

\* JFK answered from a registry that holds none of its static targets: they
\* are dropped and its only neighbour is returned
C16_Witness ==
    /\ RoutesAnswered /\ resp[1].status = 200
    /\ upper(req[1].iata) = JFK
    /\ Len(AIRPORTS) = 2
    /\ \A i \in 1..Len(StaticOf(JFK)) : ~DictHas(AIRPORTS, StaticOf(JFK)[i])
    /\ Len(resp[1].body.connections) = 1
    /\ resp[1].body.connections[1].iata = <<"B", "O", "S">>

----------------------------------------------------------------------------
(* Errors *)

\* C13: under any interleaving of concurrent requests, a get_routes or
\* destination_summary request ends with a successful response or with
\* Not-Found, never with an unhandled error.
C13_NoUnhandledError ==
    \A t \in Threads :
        (pc[t] = "done" /\ req[t].op \in {"get_routes", "destination_summary"})
            => resp[t].status \in {200, 404}

\* the loop of the loader leaves at line j: the cap is given and the row
\* stored there brings the mapping to the cap
StopsAt(lines, j, max_airports) ==
    /\ max_airports.given
    /\ ~lines[j].bad /\ RowQualifies(lines[j].cells)
    /\ Len(FirstKeys(SubSeq(lines, 1, j), 1, <<>>)) >= max_airports.n

\* the reader raises: the loop comes to a line that does not parse
ReaderRaises(lines, max_airports) ==
    \E i \in 1..Len(lines) :
        /\ lines[i].bad
        /\ \A j \in 1..(i - 1) : ~lines[j].bad /\ ~StopsAt(lines, j, max_airports)

\* C14: when the GET raises (connection error, timeout), answers a
\* non-success status, or the reader raises while the rows are parsed, the
\* loader returns the empty mapping, never the rows collected so far.
C14_FailureGivesEmpty ==
    (/\ LoadReturned
     /\ \/ call.http.exc # "none"
        \/ call.http.status >= 400
        \/ ReaderRaises(call.http.lines, call.max_airports))
        => result.value = EmptyDict

\* the loader returned the empty mapping for a dataset whose first row
\* qualifies and whose second line does not parse
C14_Witness ==
    /\ LoadReturned
    /\ call.http.status = 200 /\ ~call.max_airports.given
    /\ Len(call.http.lines) >= 2
    /\ ~call.http.lines[1].bad /\ RowQualifies(call.http.lines[1].cells)
    /\ call.http.lines[2].bad
    /\ result.value = EmptyDict

----------------------------------------------------------------------------
(* Changes of the remote column set *)

\* the columns of the loader that the remote header does not have
Missing(lines) == Columns \ DOMAIN lines[1].cells

\* the columns a row cannot be kept without
Essential == {"iata_code", "type", "latitude_deg", "longitude_deg"}

\* thread t returns from ensure_airports_loaded on this step
EnsureStores(t) == pc[t] = "assign" /\ pc'[t] # "assign"

\* C15 (as claimed): whichever one of the seven columns is removed or
\* renamed, ensure_airports_loaded populates the registry with the fallback
\* table, and no error is surfaced.
C15_ColumnChangeFallsBack ==
    [][\A t \in Threads :
          (EnsureStores(t) /\ Missing(remote) # {})
              => (AIRPORTS' = FALLBACK_AIRPORTS /\ resp'[t] = NoResponse)]_vars

\* C15 (amended): when one of iata_code, type, latitude_deg, longitude_deg is
\* removed or renamed, ensure_airports_loaded populates the registry with the
\* fallback table; when one of name, iso_country, municipality is, and the
\* fetch succeeds, it populates the registry with the dataset's airports, the
\* missing field empty (city taken from name when municipality is missing).
\* In both cases the caller goes on in its handler: no error is surfaced.
C15_EssentialColumnChangeFallsBack ==
    [][\A t \in Threads :
          (EnsureStores(t) /\ Missing(remote) # {}) =>
              /\ pc'[t] = "ensured" /\ resp'[t] = NoResponse
              /\ (Missing(remote) \cap Essential # {}) => AIRPORTS' = FALLBACK_AIRPORTS
              /\ (Missing(remote) \cap Essential = {} /\ loc[t].http = Ok(remote)) =>
                    /\ Len(AIRPORTS') = Len(remote)
                    /\ \A i \in 1..Len(remote) :
                          LET row == remote[i].cells
                              v == AIRPORTS'[i].v
                          IN  /\ AIRPORTS'[i].k = row.iata_code
                              /\ v.name = IF "name" \in Missing(remote) THEN <<>>
                                          ELSE row.name
                              /\ v.country = IF "iso_country" \in Missing(remote)
                                             THEN <<>> ELSE row.iso_country
                              /\ v.city = IF "municipality" \in Missing(remote)
                                          THEN row.name ELSE row.municipality
                              /\ v.lat = ParseFloat(row.latitude_deg).val
                              /\ v.lng = ParseFloat(row.longitude_deg).val]_vars

\* GET /airports answered with the four fallback airports after the one fetch
\* of a dataset whose latitude_deg column is gone
C15_Witness ==
    /\ "latitude_deg" \in Missing(remote)
    /\ fetches = 1
    /\ AIRPORTS = FALLBACK_AIRPORTS
    /\ \E t \in Threads :
          /\ pc[t] = "done" /\ req[t].op = "list_airports"
          /\ resp[t].status = 200 /\ Len(resp[t].body) = 4

====
